---- MODULE Spec2Model ----
(***************************************************************************)
(* Model of modelica-rust-ffi: the ModelicaRuntime variable store and its  *)
(* Euler stepping (src/src/runtime/modelica_runtime.rs), the               *)
(* SimpleThermalComponent (src/src/components/simple_thermal.rs) and the   *)
(* ComponentRegistry (src/src/registry.rs).                                *)
(***************************************************************************)
EXTENDS Integers, Sequences, FiniteSets, TLC

(***************************************************************************)
(* f64.  A value is NaN, +infinity, -infinity or a finite number.  Finite  *)
(* numbers are kept as an integer count of 1/Scale (limited precision),    *)
(* results are rounded to the nearest representable value (ties to even)   *)
(* and magnitudes above FMax overflow to an infinity.                      *)
(***************************************************************************)
Scale == 100

FMax == 1000000

NaN == [k |-> "nan", v |-> 0]

PosInf == [k |-> "inf", v |-> 1]

NegInf == [k |-> "inf", v |-> -1]

Fin(n) == [k |-> "fin", v |-> n]

\* n whole units, e.g. the literal 250.0
F(n) == Fin(n * Scale)

Abs(n) == IF n < 0 THEN -n ELSE n

Sgn(n) == IF n < 0 THEN -1 ELSE IF n > 0 THEN 1 ELSE 0

Inf(s) == IF s < 0 THEN NegInf ELSE PosInf

Norm(n) == IF n > FMax THEN PosInf ELSE IF n < -FMax THEN NegInf ELSE Fin(n)

\* n / d for n >= 0, d > 0, rounded to nearest, ties to even
RoundDivNat(n, d) ==
    LET q == n \div d
        r == n % d
    IN  IF 2 * r < d THEN q
        ELSE IF 2 * r > d THEN q + 1
        ELSE IF q % 2 = 0 THEN q ELSE q + 1

is_finite(x) == x.k = "fin"

is_nan(x) == x.k = "nan"

\* x < y, x > y, x <= y; every comparison with NaN is false
flt(x, y) ==
    /\ ~is_nan(x) /\ ~is_nan(y)
    /\ IF is_finite(x) /\ is_finite(y) THEN x.v < y.v
       ELSE IF is_finite(x) THEN y = PosInf
       ELSE IF is_finite(y) THEN x = NegInf
       ELSE x = NegInf /\ y = PosInf

fgt(x, y) == flt(y, x)

fle(x, y) == ~is_nan(x) /\ ~is_nan(y) /\ (flt(x, y) \/ x = y)

fneg(x) == IF is_nan(x) THEN NaN ELSE [x EXCEPT !.v = -x.v]

fadd(x, y) ==
    IF is_nan(x) \/ is_nan(y) THEN NaN
    ELSE IF is_finite(x) /\ is_finite(y) THEN Norm(x.v + y.v)
    ELSE IF is_finite(x) THEN y
    ELSE IF is_finite(y) THEN x
    ELSE IF x = y THEN x ELSE NaN

fsub(x, y) == fadd(x, fneg(y))

fmul(x, y) ==
    IF is_nan(x) \/ is_nan(y) THEN NaN
    ELSE IF is_finite(x) /\ is_finite(y) THEN
        IF x.v = 0 \/ y.v = 0 THEN Fin(0)
        ELSE IF Abs(x.v) > ((FMax + 1) * Scale) \div Abs(y.v)
             THEN Inf(Sgn(x.v) * Sgn(y.v))
        ELSE Norm(Sgn(x.v) * Sgn(y.v) * RoundDivNat(Abs(x.v) * Abs(y.v), Scale))
    ELSE IF (is_finite(x) /\ x.v = 0) \/ (is_finite(y) /\ y.v = 0) THEN NaN
    ELSE Inf(Sgn(x.v) * Sgn(y.v))

fdiv(x, y) ==
    IF is_nan(x) \/ is_nan(y) THEN NaN
    ELSE IF is_finite(x) /\ is_finite(y) THEN
        IF y.v = 0 THEN (IF x.v = 0 THEN NaN ELSE Inf(x.v))
        ELSE Norm(Sgn(x.v) * Sgn(y.v) * RoundDivNat(Abs(x.v) * Scale, Abs(y.v)))
    ELSE IF is_finite(x) THEN Fin(0)
    ELSE IF is_finite(y) THEN Inf(x.v * (IF y.v < 0 THEN -1 ELSE 1))
    ELSE NaN

(***************************************************************************)
(* ComponentResult: Ok carries the receiver as the call left it, Err       *)
(* carries the error kind together with the receiver as the call left it   *)
(* (a `?` returns early but does not undo earlier assignments).            *)
(***************************************************************************)
Ok(self) == [self |-> self, err |-> "Ok"]

Err(self, e) == [self |-> self, err |-> e]

\* HashMap::insert: overwrites the value of a present key, creates an absent one
Insert(m, key, value) ==
    [x \in (DOMAIN m) \cup {key} |-> IF x = key THEN value ELSE m[x]]

(***************************************************************************)
(* ModelicaRuntime                                                         *)
(***************************************************************************)
VARIABLES component_name, real_vars, bool_vars, time, result

\* ComponentRegistry (declared here so that each action can frame it)
VARIABLES components, name_to_id, nsteps, reg_result

rt_vars == <<component_name, real_vars, bool_vars, time, result>>

reg_vars == <<components, name_to_id, nsteps, reg_result>>

Self == [component_name |-> component_name, real_vars |-> real_vars,
         bool_vars |-> bool_vars, time |-> time]

NoRuntime == [component_name |-> "", real_vars |-> << >>,
              bool_vars |-> << >>, time |-> F(0)]

new(name) ==
    IF name = "" THEN Err(NoRuntime, "InitializationFailed")
    ELSE IF name = "SimpleThermalMVP" THEN
        Ok([component_name |-> name,
            real_vars |-> [roomTemp |-> F(250), temperature |-> F(250),
                           heaterStatus |-> F(0), roomCapacity |-> F(1000),
                           ambientTemp |-> F(250), heaterPower |-> F(500),
                           lossCoefficient |-> F(2)],
            bool_vars |-> [heaterOn |-> FALSE],
            time |-> F(0)])
    ELSE Err(NoRuntime, "InitializationFailed")

get_real_variable(self, name) ==
    IF name \in DOMAIN self.real_vars
    THEN [val |-> self.real_vars[name], err |-> "Ok"]
    ELSE [val |-> NaN, err |-> "VariableNotFound"]

\* set_real_variable as it would be if an out-of-range temperature were
\* clamped into [0, 1000] instead of rejected
set_real_variable_Clamps(self, name, value) ==
    IF ~is_finite(value) THEN Err(self, "InvalidInput")
    ELSE IF name \notin DOMAIN self.real_vars THEN Err(self, "VariableNotFound")
    ELSE IF name \in {"temperature", "roomTemp"} /\ flt(value, F(0))
         THEN Ok([self EXCEPT !.real_vars = Insert(@, name, F(0))])
    ELSE IF name \in {"temperature", "roomTemp"} /\ fgt(value, F(1000))
         THEN Ok([self EXCEPT !.real_vars = Insert(@, name, F(1000))])
    ELSE Ok([self EXCEPT !.real_vars = Insert(@, name, value)])

\* set_real_variable as it would be without the contains_key check
set_real_variable_CreatesKey(self, name, value) ==
    IF ~is_finite(value) THEN Err(self, "InvalidInput")
    ELSE IF /\ name \in {"temperature", "roomTemp"}
            /\ (flt(value, F(0)) \/ fgt(value, F(1000)))
         THEN Err(self, "BoundsCheckFailed")
    ELSE Ok([self EXCEPT !.real_vars = Insert(@, name, value)])

\* set_real_variable as it would be if the existence check came before the
\* finiteness check
set_real_variable_ChecksNameFirst(self, name, value) ==
    IF name \notin DOMAIN self.real_vars THEN Err(self, "VariableNotFound")
    ELSE IF ~is_finite(value) THEN Err(self, "InvalidInput")
    ELSE IF /\ name \in {"temperature", "roomTemp"}
            /\ (flt(value, F(0)) \/ fgt(value, F(1000)))
         THEN Err(self, "BoundsCheckFailed")
    ELSE Ok([self EXCEPT !.real_vars = Insert(@, name, value)])

set_real_variable(self, name, value) ==
    IF ~is_finite(value) THEN Err(self, "InvalidInput")
    ELSE IF name \notin DOMAIN self.real_vars THEN Err(self, "VariableNotFound")
    ELSE IF /\ name \in {"temperature", "roomTemp"}
            /\ (flt(value, F(0)) \/ fgt(value, F(1000)))
         THEN Err(self, "BoundsCheckFailed")
    ELSE Ok([self EXCEPT !.real_vars = Insert(@, name, value)])

get_bool_variable(self, name) ==
    IF name \in DOMAIN self.bool_vars
    THEN [val |-> self.bool_vars[name], err |-> "Ok"]
    ELSE [val |-> FALSE, err |-> "VariableNotFound"]

\* set_bool_variable as it would be if switching heaterOn also wrote
\* heaterStatus
set_bool_variable_UpdatesStatus(self, name, value) ==
    IF name \notin DOMAIN self.bool_vars THEN Err(self, "VariableNotFound")
    ELSE Ok([self EXCEPT !.bool_vars = Insert(@, name, value),
                         !.real_vars = Insert(@, "heaterStatus",
                                              IF value THEN F(1) ELSE F(0))])

set_bool_variable(self, name, value) ==
    IF name \notin DOMAIN self.bool_vars THEN Err(self, "VariableNotFound")
    ELSE Ok([self EXCEPT !.bool_vars = Insert(@, name, value)])

\* step_simple_thermal as it would be if it stored the new state with
\* HashMap::insert instead of set_real_variable (no bounds check)
step_simple_thermal_NoBoundsCheck(self, dt) ==
    LET room_temp == get_real_variable(self, "roomTemp")
        room_capacity == get_real_variable(self, "roomCapacity")
        ambient_temp == get_real_variable(self, "ambientTemp")
        heater_power == get_real_variable(self, "heaterPower")
        loss_coefficient == get_real_variable(self, "lossCoefficient")
        heater_on == get_bool_variable(self, "heaterOn")
        heating == IF heater_on.val THEN heater_power.val ELSE F(0)
        losses == fmul(loss_coefficient.val, fsub(room_temp.val, ambient_temp.val))
        d_temp == fmul(fdiv(fsub(heating, losses), room_capacity.val), dt)
        new_temp == fadd(room_temp.val, d_temp)
        s1 == Insert(self.real_vars, "roomTemp", new_temp)
        s2 == Insert(s1, "temperature", new_temp)
        s3 == Insert(s2, "heaterStatus", IF heater_on.val THEN F(1) ELSE F(0))
    IN  IF room_temp.err # "Ok" THEN Err(self, room_temp.err)
        ELSE IF room_capacity.err # "Ok" THEN Err(self, room_capacity.err)
        ELSE IF ambient_temp.err # "Ok" THEN Err(self, ambient_temp.err)
        ELSE IF heater_power.err # "Ok" THEN Err(self, heater_power.err)
        ELSE IF loss_coefficient.err # "Ok" THEN Err(self, loss_coefficient.err)
        ELSE IF heater_on.err # "Ok" THEN Err(self, heater_on.err)
        ELSE IF ~is_finite(new_temp) THEN Err(self, "StepFailed")
        ELSE Ok([self EXCEPT !.real_vars = s3])

\* step_simple_thermal as it would be if heaterStatus were stored before the
\* two temperatures
step_simple_thermal_StatusFirst(self, dt) ==
    LET room_temp == get_real_variable(self, "roomTemp")
        room_capacity == get_real_variable(self, "roomCapacity")
        ambient_temp == get_real_variable(self, "ambientTemp")
        heater_power == get_real_variable(self, "heaterPower")
        loss_coefficient == get_real_variable(self, "lossCoefficient")
        heater_on == get_bool_variable(self, "heaterOn")
        heating == IF heater_on.val THEN heater_power.val ELSE F(0)
        losses == fmul(loss_coefficient.val, fsub(room_temp.val, ambient_temp.val))
        d_temp == fmul(fdiv(fsub(heating, losses), room_capacity.val), dt)
        new_temp == fadd(room_temp.val, d_temp)
        s1 == set_real_variable(self, "heaterStatus",
                                IF heater_on.val THEN F(1) ELSE F(0))
        s2 == set_real_variable(s1.self, "roomTemp", new_temp)
        s3 == set_real_variable(s2.self, "temperature", new_temp)
    IN  IF room_temp.err # "Ok" THEN Err(self, room_temp.err)
        ELSE IF room_capacity.err # "Ok" THEN Err(self, room_capacity.err)
        ELSE IF ambient_temp.err # "Ok" THEN Err(self, ambient_temp.err)
        ELSE IF heater_power.err # "Ok" THEN Err(self, heater_power.err)
        ELSE IF loss_coefficient.err # "Ok" THEN Err(self, loss_coefficient.err)
        ELSE IF heater_on.err # "Ok" THEN Err(self, heater_on.err)
        ELSE IF ~is_finite(new_temp) THEN Err(self, "StepFailed")
        ELSE IF s1.err # "Ok" THEN s1
        ELSE IF s2.err # "Ok" THEN s2
        ELSE s3

\* step_simple_thermal as it would be if the derivative had the wrong sign
\* (losses - heating)
step_simple_thermal_SignFlipped(self, dt) ==
    LET room_temp == get_real_variable(self, "roomTemp")
        room_capacity == get_real_variable(self, "roomCapacity")
        ambient_temp == get_real_variable(self, "ambientTemp")
        heater_power == get_real_variable(self, "heaterPower")
        loss_coefficient == get_real_variable(self, "lossCoefficient")
        heater_on == get_bool_variable(self, "heaterOn")
        heating == IF heater_on.val THEN heater_power.val ELSE F(0)
        losses == fmul(loss_coefficient.val, fsub(room_temp.val, ambient_temp.val))
        d_temp == fmul(fdiv(fsub(losses, heating), room_capacity.val), dt)
        new_temp == fadd(room_temp.val, d_temp)
        s1 == set_real_variable(self, "roomTemp", new_temp)
        s2 == set_real_variable(s1.self, "temperature", new_temp)
        s3 == set_real_variable(s2.self, "heaterStatus",
                                IF heater_on.val THEN F(1) ELSE F(0))
    IN  IF room_temp.err # "Ok" THEN Err(self, room_temp.err)
        ELSE IF room_capacity.err # "Ok" THEN Err(self, room_capacity.err)
        ELSE IF ambient_temp.err # "Ok" THEN Err(self, ambient_temp.err)
        ELSE IF heater_power.err # "Ok" THEN Err(self, heater_power.err)
        ELSE IF loss_coefficient.err # "Ok" THEN Err(self, loss_coefficient.err)
        ELSE IF heater_on.err # "Ok" THEN Err(self, heater_on.err)
        ELSE IF ~is_finite(new_temp) THEN Err(self, "StepFailed")
        ELSE IF s1.err # "Ok" THEN s1
        ELSE IF s2.err # "Ok" THEN s2
        ELSE s3

step_simple_thermal(self, dt) ==
    LET room_temp == get_real_variable(self, "roomTemp")
        room_capacity == get_real_variable(self, "roomCapacity")
        ambient_temp == get_real_variable(self, "ambientTemp")
        heater_power == get_real_variable(self, "heaterPower")
        loss_coefficient == get_real_variable(self, "lossCoefficient")
        heater_on == get_bool_variable(self, "heaterOn")
        heating == IF heater_on.val THEN heater_power.val ELSE F(0)
        losses == fmul(loss_coefficient.val, fsub(room_temp.val, ambient_temp.val))
        d_temp == fmul(fdiv(fsub(heating, losses), room_capacity.val), dt)
        new_temp == fadd(room_temp.val, d_temp)
        s1 == set_real_variable(self, "roomTemp", new_temp)
        s2 == set_real_variable(s1.self, "temperature", new_temp)
        s3 == set_real_variable(s2.self, "heaterStatus",
                                IF heater_on.val THEN F(1) ELSE F(0))
    IN  IF room_temp.err # "Ok" THEN Err(self, room_temp.err)
        ELSE IF room_capacity.err # "Ok" THEN Err(self, room_capacity.err)
        ELSE IF ambient_temp.err # "Ok" THEN Err(self, ambient_temp.err)
        ELSE IF heater_power.err # "Ok" THEN Err(self, heater_power.err)
        ELSE IF loss_coefficient.err # "Ok" THEN Err(self, loss_coefficient.err)
        ELSE IF heater_on.err # "Ok" THEN Err(self, heater_on.err)
        ELSE IF ~is_finite(new_temp) THEN Err(self, "StepFailed")
        ELSE IF s1.err # "Ok" THEN s1
        ELSE IF s2.err # "Ok" THEN s2
        ELSE s3

\* step as it would be if the timestep check were dt < 0.0 instead of dt <= 0.0
step_AcceptsZeroDt(self, dt) ==
    IF flt(dt, F(0)) \/ ~is_finite(dt) THEN Err(self, "StepFailed")
    ELSE IF self.component_name = "SimpleThermalMVP" THEN
        LET r == step_simple_thermal(self, dt)
        IN  IF r.err # "Ok" THEN r
            ELSE Ok([r.self EXCEPT !.time = fadd(@, dt)])
    ELSE Err(self, "StepFailed")

\* step as it would be if the time were advanced before the integration, so
\* that a failed integration leaves the time advanced
step_AdvancesTimeFirst(self, dt) ==
    IF fle(dt, F(0)) \/ ~is_finite(dt) THEN Err(self, "StepFailed")
    ELSE IF self.component_name = "SimpleThermalMVP" THEN
        step_simple_thermal([self EXCEPT !.time = fadd(@, dt)], dt)
    ELSE Err(self, "StepFailed")

step(self, dt) ==
    IF fle(dt, F(0)) \/ ~is_finite(dt) THEN Err(self, "StepFailed")
    ELSE IF self.component_name = "SimpleThermalMVP" THEN
        LET r == step_simple_thermal(self, dt)
        IN  IF r.err # "Ok" THEN r
            ELSE Ok([r.self EXCEPT !.time = fadd(@, dt)])
    ELSE Err(self, "StepFailed")

\* reset as it would be if it did not switch the heater input off
reset_KeepsHeaterOn(self) ==
    IF self.component_name = "SimpleThermalMVP" THEN
        LET ambient == IF "ambientTemp" \in DOMAIN self.real_vars
                       THEN self.real_vars["ambientTemp"] ELSE F(250)
            s1 == set_real_variable(self, "roomTemp", ambient)
            s2 == set_real_variable(s1.self, "temperature", ambient)
            s3 == set_real_variable(s2.self, "heaterStatus", F(0))
        IN  IF s1.err # "Ok" THEN s1
            ELSE IF s2.err # "Ok" THEN s2
            ELSE IF s3.err # "Ok" THEN s3
            ELSE Ok([s3.self EXCEPT !.time = F(0)])
    ELSE Ok([self EXCEPT !.time = F(0)])

reset(self) ==
    IF self.component_name = "SimpleThermalMVP" THEN
        LET ambient == IF "ambientTemp" \in DOMAIN self.real_vars
                       THEN self.real_vars["ambientTemp"] ELSE F(250)
            s1 == set_real_variable(self, "roomTemp", ambient)
            s2 == set_real_variable(s1.self, "temperature", ambient)
            s3 == set_real_variable(s2.self, "heaterStatus", F(0))
            s4 == set_bool_variable(s3.self, "heaterOn", FALSE)
        IN  IF s1.err # "Ok" THEN s1
            ELSE IF s2.err # "Ok" THEN s2
            ELSE IF s3.err # "Ok" THEN s3
            ELSE IF s4.err # "Ok" THEN s4
            ELSE Ok([s4.self EXCEPT !.time = F(0)])
    ELSE Ok([self EXCEPT !.time = F(0)])

(***************************************************************************)
(* Callers of ModelicaRuntime: the arguments the public operations are     *)
(* called with.                                                            *)
(***************************************************************************)
MaxSteps == 2

\* the literal 0.1 used by the tests
Tenth == Fin(Scale \div 10)

\* simulation time is capped for the search: MaxSteps steps of 0.1
MaxTime == Fin(MaxSteps * (Scale \div 10))

DtInputs == {NaN, PosInf, NegInf, F(0), fneg(Tenth), Tenth, F(2000)}

RealNames == {"roomTemp", "temperature", "heaterStatus", "roomCapacity",
              "ambientTemp", "heaterPower", "lossCoefficient"}

BoolNames == {"heaterOn"}

Undeclared == "nonexistent"

SetRealInputs ==
    ({"temperature", "roomTemp"}
        \X {NaN, PosInf, F(-1), F(0), F(1000), F(1001)})
    \cup ({"temperature"} \X {Fin(-1), Fin(1000 * Scale + 1)})
    \cup ({"ambientTemp"} \X {F(1001), NaN})
    \cup ({"roomCapacity"} \X {F(0)})
    \cup ({"heaterPower", "lossCoefficient", "heaterStatus"} \X {NegInf})
    \cup ({"heaterStatus"} \X {F(1)})
    \cup ({Undeclared} \X {F(1), NaN})

\* what the caller observes of the last call: the operation, its arguments,
\* the error kind it returned and the simulation time it was made at
Res(op, name, rv, bv, err) ==
    [op |-> op, name |-> name, rv |-> rv, bv |-> bv, err |-> err, at |-> time]

Assign(self) ==
    /\ component_name' = self.component_name
    /\ real_vars' = self.real_vars
    /\ bool_vars' = self.bool_vars
    /\ time' = self.time

RuntimeInit ==
    /\ component_name = new("SimpleThermalMVP").self.component_name
    /\ real_vars = new("SimpleThermalMVP").self.real_vars
    /\ bool_vars = new("SimpleThermalMVP").self.bool_vars
    /\ time = new("SimpleThermalMVP").self.time
    /\ result = Res("new", "SimpleThermalMVP", F(0), FALSE,
                    new("SimpleThermalMVP").err)

Step(dt) ==
    LET r == step(Self, dt)
    IN  /\ r.err = "Ok" => fle(r.self.time, MaxTime)
        /\ Assign(r.self)
        /\ result' = Res("step", "", dt, FALSE, r.err)
        /\ UNCHANGED reg_vars

GetRealVariable(name) ==
    /\ UNCHANGED <<component_name, real_vars, bool_vars, time>>
    /\ result' = Res("get_real_variable", name,
                     get_real_variable(Self, name).val, FALSE,
                     get_real_variable(Self, name).err)
    /\ UNCHANGED reg_vars

SetRealVariable(name, value) ==
    LET r == set_real_variable(Self, name, value)
    IN  /\ Assign(r.self)
        /\ result' = Res("set_real_variable", name, value, FALSE, r.err)
        /\ UNCHANGED reg_vars

GetBoolVariable(name) ==
    /\ UNCHANGED <<component_name, real_vars, bool_vars, time>>
    /\ result' = Res("get_bool_variable", name, F(0),
                     get_bool_variable(Self, name).val,
                     get_bool_variable(Self, name).err)
    /\ UNCHANGED reg_vars

SetBoolVariable(name, value) ==
    LET r == set_bool_variable(Self, name, value)
    IN  /\ Assign(r.self)
        /\ result' = Res("set_bool_variable", name, F(0), value, r.err)
        /\ UNCHANGED reg_vars

Reset ==
    LET r == reset(Self)
    IN  /\ Assign(r.self)
        /\ result' = Res("reset", "", F(0), FALSE, r.err)
        /\ UNCHANGED reg_vars

(***************************************************************************)
(* SimulationComponent implementors.  SimpleThermalComponent is the one    *)
(* the crate provides; the registry stores any Box<dyn SimulationComponent>*)
(* so a second implementor whose step returns Err stands for the failure   *)
(* the trait signature allows.                                             *)
(***************************************************************************)
SimpleThermalComponent_new ==
    [kind |-> "SimpleThermalMVP", temperature |-> F(250),
     heater_status |-> F(0), heater_on |-> FALSE]

FailingComponent_new ==
    [kind |-> "Failing", temperature |-> F(0),
     heater_status |-> F(0), heater_on |-> FALSE]

SimpleThermalComponent_set_bool_input(self, name, value) ==
    IF name = "heaterOn" THEN Ok([self EXCEPT !.heater_on = value])
    ELSE Err(self, "InvalidInput")

SimpleThermalComponent_step(self, dt) ==
    LET room_capacity == F(1000)
        ambient_temp == F(250)
        heater_power == F(500)
        loss_coefficient == F(2)
        heating == IF self.heater_on THEN heater_power ELSE F(0)
        losses == fmul(loss_coefficient, fsub(self.temperature, ambient_temp))
        d_temp == fmul(fdiv(fsub(heating, losses), room_capacity), dt)
    IN  Ok([self EXCEPT !.temperature = fadd(@, d_temp),
                        !.heater_status = IF self.heater_on THEN F(1) ELSE F(0)])

SimpleThermalComponent_reset(self) ==
    Ok([self EXCEPT !.temperature = F(250), !.heater_status = F(0),
                    !.heater_on = FALSE])

\* dynamic dispatch of SimulationComponent::step
component_step(self, dt) ==
    IF self.kind = "SimpleThermalMVP" THEN SimpleThermalComponent_step(self, dt)
    ELSE Err(self, "StepFailed")

\* dynamic dispatch of SimulationComponent::set_bool_input
component_set_bool_input(self, name, value) ==
    IF self.kind = "SimpleThermalMVP"
    THEN SimpleThermalComponent_set_bool_input(self, name, value)
    ELSE Err(self, "InvalidInput")

\* dynamic dispatch of SimulationComponent::reset
component_reset(self) ==
    IF self.kind = "SimpleThermalMVP" THEN SimpleThermalComponent_reset(self)
    ELSE Ok(self)

(***************************************************************************)
(* ComponentRegistry                                                       *)
(***************************************************************************)
Registry == [components |-> components, name_to_id |-> name_to_id]

ComponentRegistry_new == [components |-> << >>, name_to_id |-> << >>]

\* HashMap::remove / retain: the map without the keys outside keep
Restrict(m, keep) == [x \in (DOMAIN m) \cap keep |-> m[x]]

\* add_component as it would be if the component were inserted before the
\* name check
add_component_InsertsFirst(self, id, name, component) ==
    LET inserted == [self EXCEPT !.components = Insert(@, id, component)]
    IN  IF name \in DOMAIN self.name_to_id
        THEN Err(inserted, "InitializationFailed")
        ELSE Ok([inserted EXCEPT !.name_to_id = Insert(@, name, id)])

\* add_component as it would be without the name check: a registered name
\* is re-pointed to the new identifier
add_component_NoNameCheck(self, id, name, component) ==
    Ok([components |-> Insert(self.components, id, component),
        name_to_id |-> Insert(self.name_to_id, name, id)])

add_component(self, id, name, component) ==
    IF name \in DOMAIN self.name_to_id THEN Err(self, "InitializationFailed")
    ELSE Ok([components |-> Insert(self.components, id, component),
             name_to_id |-> Insert(self.name_to_id, name, id)])

\* id is the value Uuid::new_v4() returned
add(self, id, name, component) == add_component(self, id, name, component)

\* remove as it would be without the retain on the name map
remove_KeepsNames(self, id) ==
    IF id \notin DOMAIN self.components THEN Err(self, "InvalidInput")
    ELSE Ok([self EXCEPT !.components =
                 Restrict(@, (DOMAIN self.components) \ {id})])

\* remove as it would be if an absent identifier were ignored
remove_IgnoresAbsent(self, id) ==
    Ok([components |-> Restrict(self.components, (DOMAIN self.components) \ {id}),
        name_to_id |-> Restrict(self.name_to_id,
                         {n \in DOMAIN self.name_to_id : self.name_to_id[n] # id})])

remove(self, id) ==
    IF id \notin DOMAIN self.components THEN Err(self, "InvalidInput")
    ELSE Ok([components |-> Restrict(self.components, (DOMAIN self.components) \ {id}),
             name_to_id |-> Restrict(self.name_to_id,
                              {n \in DOMAIN self.name_to_id : self.name_to_id[n] # id})])

None == [some |-> FALSE, val |-> FailingComponent_new]

Some(c) == [some |-> TRUE, val |-> c]

get(self, id) ==
    IF id \in DOMAIN self.components THEN Some(self.components[id]) ELSE None

get_by_name(self, name) ==
    IF name \in DOMAIN self.name_to_id THEN get(self, self.name_to_id[name])
    ELSE None

list_ids(self) == DOMAIN self.components

list_names(self) == DOMAIN self.name_to_id

\* step_all as it would be if it stepped every component and reported the
\* first failure afterwards
RECURSIVE step_all_ContinuesAfterFailure(_, _, _)
step_all_ContinuesAfterFailure(self, order, dt) ==
    IF order = << >> THEN Ok(self)
    ELSE LET id == Head(order)
             r == component_step(self.components[id], dt)
             next == [self EXCEPT !.components[id] = r.self]
             rest == step_all_ContinuesAfterFailure(next, Tail(order), dt)
         IN  IF r.err # "Ok" THEN Err(rest.self, r.err) ELSE rest

\* order is the order in which HashMap::values_mut yields the components
RECURSIVE step_all(_, _, _)
step_all(self, order, dt) ==
    IF order = << >> THEN Ok(self)
    ELSE LET id == Head(order)
             r == component_step(self.components[id], dt)
             next == [self EXCEPT !.components[id] = r.self]
         IN  IF r.err # "Ok" THEN Err(next, r.err)
             ELSE step_all(next, Tail(order), dt)

(***************************************************************************)
(* Callers of ComponentRegistry                                            *)
(***************************************************************************)
MaxIds == 2

MaxRegSteps == 1

Ids == 1..MaxIds

Names == {"thermal_1", "thermal_2", "thermal_3"}

NewComponents == {SimpleThermalComponent_new, FailingComponent_new}

RegDtInputs == {NaN, PosInf, F(0), fneg(Tenth), Tenth}

\* the orders in which a HashMap with key set S can be iterated
Orders(S) ==
    {o \in [1..Cardinality(S) -> S] : \A i, j \in 1..Cardinality(S) : o[i] = o[j] => i = j}

RegRes(op, id, name, dt, order, err) ==
    [op |-> op, id |-> id, name |-> name, dt |-> dt, order |-> order, err |-> err]

AssignRegistry(self) ==
    /\ components' = self.components
    /\ name_to_id' = self.name_to_id

RegistryInit ==
    /\ components = ComponentRegistry_new.components
    /\ name_to_id = ComponentRegistry_new.name_to_id
    /\ nsteps = 0
    /\ reg_result = RegRes("new", 0, "", F(0), << >>, "Ok")

Add(name, component) ==
    \E id \in Ids \ DOMAIN components :
        LET r == add(Registry, id, name, component)
        IN  /\ AssignRegistry(r.self)
            /\ reg_result' = RegRes("add", IF r.err = "Ok" THEN id ELSE 0, name,
                                    F(0), << >>, r.err)
            /\ UNCHANGED <<nsteps, rt_vars>>

AddComponent(id, name, component) ==
    LET r == add_component(Registry, id, name, component)
    IN  /\ AssignRegistry(r.self)
        /\ reg_result' = RegRes("add_component", id, name, F(0), << >>, r.err)
        /\ UNCHANGED <<nsteps, rt_vars>>

Remove(id) ==
    LET r == remove(Registry, id)
    IN  /\ AssignRegistry(r.self)
        /\ reg_result' = RegRes("remove", id, "", F(0), << >>, r.err)
        /\ UNCHANGED <<nsteps, rt_vars>>

StepAll(dt) ==
    /\ nsteps < MaxRegSteps
    /\ \E order \in Orders(DOMAIN components) :
        LET r == step_all(Registry, order, dt)
        IN  /\ AssignRegistry(r.self)
            /\ reg_result' = RegRes("step_all", 0, "", dt, order, r.err)
    /\ nsteps' = nsteps + 1
    /\ UNCHANGED rt_vars

\* registry.get_mut(id) is Some(component); component.step(dt)
ComponentStep(id, dt) ==
    /\ nsteps < MaxRegSteps
    /\ id \in DOMAIN components
    /\ LET r == component_step(components[id], dt)
       IN  /\ components' = [components EXCEPT ![id] = r.self]
           /\ reg_result' = RegRes("step", id, "", dt, << >>, r.err)
    /\ nsteps' = nsteps + 1
    /\ UNCHANGED <<name_to_id, rt_vars>>

\* registry.get_mut(id) is Some(component); component.set_bool_input(name, value)
ComponentSetBoolInput(id, name, value) ==
    /\ id \in DOMAIN components
    /\ LET r == component_set_bool_input(components[id], name, value)
       IN  /\ components' = [components EXCEPT ![id] = r.self]
           /\ reg_result' = RegRes("set_bool_input", id, name, F(0), << >>, r.err)
    /\ UNCHANGED <<name_to_id, nsteps, rt_vars>>

\* registry.get_mut(id) is Some(component); component.reset()
ComponentReset(id) ==
    /\ id \in DOMAIN components
    /\ LET r == component_reset(components[id])
       IN  /\ components' = [components EXCEPT ![id] = r.self]
           /\ reg_result' = RegRes("reset", id, "", F(0), << >>, r.err)
    /\ UNCHANGED <<name_to_id, nsteps, rt_vars>>

(***************************************************************************)
(* Specifications                                                          *)
(***************************************************************************)
vars == <<component_name, real_vars, bool_vars, time, result,
          components, name_to_id, nsteps, reg_result>>

Init == RuntimeInit /\ RegistryInit

RuntimeNext ==
    \/ \E dt \in DtInputs : Step(dt)
    \/ \E name \in RealNames \cup {Undeclared} : GetRealVariable(name)
    \/ \E in \in SetRealInputs : SetRealVariable(in[1], in[2])
    \/ \E name \in BoolNames \cup {Undeclared} : GetBoolVariable(name)
    \/ \E name \in BoolNames \cup {Undeclared}, value \in BOOLEAN :
           SetBoolVariable(name, value)
    \/ Reset

RegistryNext ==
    \/ \E name \in Names, c \in NewComponents : Add(name, c)
    \/ \E id \in Ids, name \in Names, c \in NewComponents : AddComponent(id, name, c)
    \/ \E id \in Ids : Remove(id)
    \/ \E dt \in RegDtInputs : StepAll(dt)
    \/ \E id \in Ids, dt \in RegDtInputs : ComponentStep(id, dt)
    \/ \E id \in Ids, name \in {"heaterOn", "fanOn"}, value \in BOOLEAN :
           ComponentSetBoolInput(id, name, value)
    \/ \E id \in Ids : ComponentReset(id)

Next == RuntimeNext \/ RegistryNext

Spec == Init /\ [][Next]_vars

\* a single ModelicaRuntime and its callers
SpecRuntime == Init /\ [][RuntimeNext]_vars

\* a single ComponentRegistry and its callers
SpecRegistry == Init /\ [][RegistryNext]_vars

\* the steps, heater switches, reads and resets of a runtime whose variables
\* are never written with set_real_variable
RuntimeStepNext ==
    \/ \E dt \in DtInputs : Step(dt)
    \/ \E name \in RealNames : GetRealVariable(name)
    \/ \E value \in BOOLEAN : SetBoolVariable("heaterOn", value)
    \/ Reset

SpecRuntimeSteps == Init /\ [][RuntimeStepNext]_vars

(***************************************************************************)
(* Properties                                                              *)
(***************************************************************************)
Fresh == new("SimpleThermalMVP").self

\* C1: ModelicaRuntime::step(dt) with dt zero, negative, NaN or +infinity
\* returns StepFailed and leaves every real variable, every boolean variable
\* and the simulation time as they were.
C1_StepRejectsInvalidDt ==
    [][(/\ result'.op = "step"
        /\ \/ result'.rv = NaN
           \/ result'.rv = PosInf
           \/ (result'.rv.k = "fin" /\ result'.rv.v <= 0))
       => (/\ result'.err = "StepFailed"
           /\ UNCHANGED <<real_vars, bool_vars, time>>)]_vars

C1_Witness ==
    /\ result.op = "step"
    /\ result.rv = PosInf
    /\ result.err = "StepFailed"
    /\ time = Tenth
    /\ real_vars["temperature"] # F(250)

\* C2: SimpleThermalComponent::step(dt) returns StepFailed whenever dt is
\* <= 0, NaN or infinite, and changes temperature and heaterStatus only when
\* dt is positive and finite.
C2_ComponentStepRejectsInvalidDt ==
    [][(/\ reg_result'.op = "step"
        /\ components[reg_result'.id].kind = "SimpleThermalMVP"
        /\ ~(reg_result'.dt.k = "fin" /\ reg_result'.dt.v > 0))
       => (/\ reg_result'.err = "StepFailed"
           /\ components'[reg_result'.id].temperature
                  = components[reg_result'.id].temperature
           /\ components'[reg_result'.id].heater_status
                  = components[reg_result'.id].heater_status)]_vars

\* C3: add and add_component with a name that is already registered return
\* InitializationFailed and leave the identifiers, the names, the
\* name-to-identifier mapping and every stored component as they were.
C3_DuplicateNameRejected ==
    [][(/\ reg_result'.op \in {"add", "add_component"}
        /\ reg_result'.name \in list_names(Registry))
       => (/\ reg_result'.err = "InitializationFailed"
           /\ list_ids(Registry)' = list_ids(Registry)
           /\ list_names(Registry)' = list_names(Registry)
           /\ name_to_id' = name_to_id
           /\ components' = components)]_vars

C3_Witness ==
    /\ reg_result.op = "add_component"
    /\ reg_result.err = "InitializationFailed"
    /\ reg_result.id \in list_ids(Registry)
    /\ reg_result.name \in list_names(Registry)
    /\ name_to_id[reg_result.name] # reg_result.id

\* C4: after a successful remove(id), get(id) is absent, get_by_name(n) is
\* absent for every name n that was mapped to id, no listed name maps to id,
\* and every other identifier and name entry is as before.
C4_RemoveDropsEntryAndNames ==
    [][(reg_result'.op = "remove" /\ reg_result'.err = "Ok")
       => LET id == reg_result'.id
              after == Registry'
          IN  /\ id \in list_ids(Registry)
              /\ ~get(after, id).some
              /\ \A n \in DOMAIN name_to_id :
                    name_to_id[n] = id => ~get_by_name(after, n).some
              /\ \A n \in list_names(Registry)' : name_to_id'[n] # id
              /\ list_ids(Registry)' = list_ids(Registry) \ {id}
              /\ \A j \in list_ids(Registry)' : components'[j] = components[j]
              /\ list_names(Registry)'
                    = {n \in DOMAIN name_to_id : name_to_id[n] # id}
              /\ \A n \in list_names(Registry)' : name_to_id'[n] = name_to_id[n]]_vars

C4_Witness ==
    /\ reg_result.op = "remove"
    /\ reg_result.err = "Ok"
    /\ ~get(Registry, reg_result.id).some
    /\ Cardinality(list_ids(Registry)) = 1
    /\ Cardinality(list_names(Registry)) = 2

\* C5: remove(id) of an identifier that is not registered returns
\* InvalidInput and leaves the component map and the name map as they were;
\* a remove of the identifier that the previous remove was called with fails.
C5_RemoveAbsentRejected ==
    [][/\ (reg_result'.op = "remove" /\ reg_result'.id \notin DOMAIN components)
          => (/\ reg_result'.err = "InvalidInput"
              /\ UNCHANGED <<components, name_to_id>>)
       /\ (/\ reg_result.op = "remove"
           /\ reg_result'.op = "remove"
           /\ reg_result'.id = reg_result.id)
          => reg_result'.err = "InvalidInput"]_vars

C5_Witness ==
    /\ reg_result.op = "remove"
    /\ reg_result.err = "InvalidInput"
    /\ list_ids(Registry) # {}
    /\ list_names(Registry) # {}

\* C6: step_all(dt) steps the components one after another in the iteration
\* order; at the first component whose step fails it returns that failure,
\* the components visited before it keep their stepped state and the ones
\* after it are not stepped; when none fails every registered component is
\* stepped exactly once with dt.
C6_StepAllStopsAtFirstFailure ==
    [][(reg_result'.op = "step_all")
       => LET order == reg_result'.order
              dt == reg_result'.dt
              stepped(i) == component_step(components[order[i]], dt)
              failing == {i \in 1..Len(order) : stepped(i).err # "Ok"}
              first == CHOOSE i \in failing : \A j \in failing : i <= j
          IN  /\ {order[i] : i \in 1..Len(order)} = list_ids(Registry)
              /\ Len(order) = Cardinality(list_ids(Registry))
              /\ list_ids(Registry)' = list_ids(Registry)
              /\ name_to_id' = name_to_id
              /\ IF failing = {}
                 THEN /\ reg_result'.err = "Ok"
                      /\ \A i \in 1..Len(order) :
                            components'[order[i]] = stepped(i).self
                 ELSE /\ reg_result'.err = stepped(first).err
                      /\ \A i \in 1..Len(order) :
                            /\ i < first => components'[order[i]] = stepped(i).self
                            /\ i > first => components'[order[i]] = components[order[i]]]_vars

C6_Witness ==
    /\ reg_result.op = "step_all"
    /\ reg_result.err = "StepFailed"
    /\ reg_result.dt = Tenth
    /\ Len(reg_result.order) = 2
    /\ components[reg_result.order[1]].kind = "SimpleThermalMVP"
    /\ components[reg_result.order[1]].heater_status = F(1)
    /\ fgt(components[reg_result.order[1]].temperature, F(250))
    /\ components[reg_result.order[2]].kind = "Failing"

\* C7: after any sequence of steps with heaterOn switched in between,
\* reset() succeeds and leaves exactly the state of a freshly constructed
\* runtime (temperature = roomTemp = 250.0, heaterStatus = 0.0,
\* heaterOn = false, time = 0.0), and a reset() directly after a reset()
\* changes nothing.
C7_ResetRestoresFreshState ==
    [][/\ (result'.op = "reset")
          => (/\ result'.err = "Ok"
              /\ Self' = Fresh
              /\ real_vars'["temperature"] = F(250)
              /\ real_vars'["roomTemp"] = F(250)
              /\ real_vars'["heaterStatus"] = F(0)
              /\ bool_vars'["heaterOn"] = FALSE
              /\ time' = F(0))
       /\ (result.op = "reset" /\ result'.op = "reset")
          => UNCHANGED <<real_vars, bool_vars, time>>]_vars

C7_Witness ==
    /\ result.op = "reset"
    /\ result.at = MaxTime
    /\ result.err = "Ok"
    /\ Self = Fresh

\* C8: reset() always succeeds: in every state reachable through
\* set_real_variable, set_bool_variable, step and reset, a reset() returns
\* success and sets time to 0.
C8_ResetAlwaysSucceeds ==
    result.op = "reset" => (result.err = "Ok" /\ time = F(0))

\* C9: set_real_variable("temperature", v) with finite v returns
\* BoundsCheckFailed when v < 0 or v > 1000 and then leaves the stored
\* temperature as it was (no clamping), and succeeds and stores v when
\* 0 <= v <= 1000.
C9_TemperatureBounds ==
    [][(/\ result'.op = "set_real_variable"
        /\ result'.name = "temperature"
        /\ result'.rv.k = "fin")
       => IF result'.rv.v < 0 \/ result'.rv.v > 1000 * Scale
          THEN /\ result'.err = "BoundsCheckFailed"
               /\ real_vars'["temperature"] = real_vars["temperature"]
               /\ UNCHANGED <<real_vars, bool_vars, time>>
          ELSE /\ result'.err = "Ok"
               /\ real_vars'["temperature"] = result'.rv]_vars

C9_Witness ==
    /\ result.op = "set_real_variable"
    /\ result.name = "temperature"
    /\ result.rv = Fin(1000 * Scale + 1)
    /\ result.err = "BoundsCheckFailed"
    /\ real_vars["temperature"] = F(1000)

\* C10: the declared names are fixed at construction: the key sets of the
\* real and boolean stores stay the ones new() created, and a get or set of
\* an undeclared name (with a finite value) returns VariableNotFound.
C10_DeclaredNamesFixed ==
    /\ DOMAIN real_vars = DOMAIN Fresh.real_vars
    /\ DOMAIN bool_vars = DOMAIN Fresh.bool_vars
    /\ (/\ result.op = "get_real_variable"
        /\ result.name \notin DOMAIN Fresh.real_vars)
       => result.err = "VariableNotFound"
    /\ (/\ result.op = "set_real_variable"
        /\ result.name \notin DOMAIN Fresh.real_vars
        /\ result.rv.k = "fin")
       => result.err = "VariableNotFound"
    /\ (/\ result.op \in {"get_bool_variable", "set_bool_variable"}
        /\ result.name \notin DOMAIN Fresh.bool_vars)
       => result.err = "VariableNotFound"

C10_Witness ==
    /\ result.op = "set_real_variable"
    /\ result.name = Undeclared
    /\ result.rv = F(1)
    /\ result.err = "VariableNotFound"
    /\ Undeclared \notin DOMAIN real_vars

\* the parameters of the thermal model have the values new() gave them
DefaultParameters ==
    /\ real_vars["roomCapacity"] = F(1000)
    /\ real_vars["ambientTemp"] = F(250)
    /\ real_vars["heaterPower"] = F(500)
    /\ real_vars["lossCoefficient"] = F(2)

C12_TimeMonotonic ==
    [][/\ (result.op = "new") => time = F(0)
       /\ (result'.op = "step" /\ result'.err = "Ok")
          => (/\ time'.k = "fin"
              /\ time'.v = time.v + result'.rv.v
              /\ time'.v > time.v)
       /\ (result'.op = "step" /\ result'.err # "Ok") => time' = time
       /\ (result'.op \in {"get_real_variable", "set_real_variable",
                           "get_bool_variable", "set_bool_variable"})
          => time' = time
       /\ (result'.op = "reset" /\ result'.err = "Ok") => time' = F(0)
       /\ (time'.v < time.v) => (result'.op = "reset" /\ time' = F(0))]_vars

C12_Witness ==
    /\ result.op = "step"
    /\ result.err = "Ok"
    /\ result.rv = Tenth
    /\ result.at = Tenth
    /\ time = fadd(Tenth, Tenth)

\* C13: set_real_variable checks finiteness, then existence, then bounds: a
\* NaN or infinite value returns InvalidInput even for an undeclared name, a
\* finite value for an undeclared name returns VariableNotFound,
\* BoundsCheckFailed is returned only for a declared name with a finite
\* value, and in all three failure cases the store is unchanged.
C13_SetRealCheckOrder ==
    [][(result'.op = "set_real_variable")
       => /\ (result'.rv.k # "fin") => result'.err = "InvalidInput"
          /\ (result'.rv.k = "fin" /\ result'.name \notin DOMAIN real_vars)
             => result'.err = "VariableNotFound"
          /\ (result'.err = "BoundsCheckFailed")
             => (result'.rv.k = "fin" /\ result'.name \in DOMAIN real_vars)
          /\ (result'.err \in {"InvalidInput", "VariableNotFound", "BoundsCheckFailed"})
             => UNCHANGED <<real_vars, bool_vars, time>>
          /\ result'.err \in {"Ok", "InvalidInput", "VariableNotFound",
                              "BoundsCheckFailed"}]_vars

C13_Witness ==
    /\ result.op = "set_real_variable"
    /\ result.name = Undeclared
    /\ result.rv = NaN
    /\ result.err = "InvalidInput"
    /\ real_vars # Fresh.real_vars

C15_TemperatureAliasesRoomTemp ==
    get_real_variable(Self, "temperature").val
        = get_real_variable(Self, "roomTemp").val

\* every name points to a registered identifier and every registered
\* identifier has a name
RegistryLinked ==
    /\ \A n \in DOMAIN name_to_id : name_to_id[n] \in DOMAIN components
    /\ \A id \in DOMAIN components : \E n \in DOMAIN name_to_id : name_to_id[n] = id
    /\ Cardinality(list_names(Registry)) >= Cardinality(list_ids(Registry))

\* every registered identifier has exactly one name
OneNamePerId ==
    /\ \A id \in DOMAIN components :
          Cardinality({n \in DOMAIN name_to_id : name_to_id[n] = id}) = 1
    /\ Cardinality(list_ids(Registry)) = Cardinality(list_names(Registry))

\* C16 as stated: after any sequence of add, add_component (with any
\* identifier, also a registered one) and remove, every name points to a
\* registered identifier and every registered identifier is pointed to by
\* exactly one name, so list_ids() and list_names() have the same length.
C16_OneToOne ==
    /\ \A n \in DOMAIN name_to_id : name_to_id[n] \in DOMAIN components
    /\ OneNamePerId

\* C16 (amended): every name points to a registered identifier and every
\* registered identifier has at least one name, so list_names() is at least
\* as long as list_ids(); each identifier has exactly one name, and the two
\* lists the same length, as long as add_component is not called with an
\* identifier that is already registered.
C16_LinkedAndOneToOneWithoutReuse ==
    [][/\ RegistryLinked'
       /\ (/\ OneNamePerId
           /\ ~(/\ reg_result'.op = "add_component"
                /\ reg_result'.id \in DOMAIN components))
          => OneNamePerId']_vars

C16_Witness ==
    /\ reg_result.op = "add_component"
    /\ reg_result.err = "Ok"
    /\ Cardinality(list_ids(Registry)) = 1
    /\ Cardinality(list_names(Registry)) = 2
    /\ \A n \in DOMAIN name_to_id : name_to_id[n] = reg_result.id

\* C17: in every reachable state roomTemp and temperature are finite and in
\* [0, 1000] and every other real variable is finite.
C17_StoredValuesInRange ==
    /\ \A name \in DOMAIN real_vars : real_vars[name].k = "fin"
    /\ \A name \in {"roomTemp", "temperature"} :
          real_vars[name].v >= 0 /\ real_vars[name].v <= 1000 * Scale

C17_Witness ==
    /\ result.op = "step"
    /\ result.rv = F(2000)
    /\ result.err # "Ok"
    /\ bool_vars["heaterOn"]
    /\ real_vars["roomTemp"].v <= 1000 * Scale
    /\ real_vars["roomCapacity"] = F(1000)

\* C18: a step(dt) with a valid dt > 0 that returns an error leaves roomTemp,
\* temperature, heaterStatus, heaterOn and time as they were, and one that
\* succeeds has written roomTemp, temperature and time together.
C18_StepAtomic ==
    [][(/\ result'.op = "step"
        /\ result'.rv.k = "fin"
        /\ result'.rv.v > 0)
       => /\ (result'.err # "Ok")
             => UNCHANGED <<real_vars, bool_vars, time>>
          /\ (result'.err = "Ok")
             => (/\ real_vars'["temperature"] = real_vars'["roomTemp"]
                 /\ time' = fadd(time, result'.rv))]_vars

C18_Witness ==
    /\ result.op = "step"
    /\ result.rv = Tenth
    /\ result.err = "StepFailed"
    /\ real_vars["roomCapacity"] = F(0)
    /\ bool_vars["heaterOn"]
    /\ real_vars["heaterStatus"] = F(0)

\* C19: every failure of step is a StepFailed: step(dt) returns success or
\* StepFailed, never another error kind.
C19_StepFailsOnlyWithStepFailed ==
    result.op = "step" => result.err \in {"Ok", "StepFailed"}

====
